---------------------------- MODULE Spec2Model ----------------------------
(***************************************************************************)
(* A model of LE_ASCII-TRANSFORMER: the image-to-glyph conversion done by  *)
(* processImage (components/AsciiCanvas), the effect that schedules it,    *)
(* and the AI generation handler of App.                                   *)
(*                                                                         *)
(* Numbers.  The program computes in IEEE doubles.  The model computes the *)
(* same expressions in exact rational arithmetic: a rational is a pair     *)
(* <<n, d>> with d > 0 in lowest terms.  A double result can differ from   *)
(* the exact one only where Math.floor is taken of a value that is exactly *)
(* an integer (the unclamped cols of a few widths, one column less).       *)
(* Slider values are kept in the slider's own steps: resolution in         *)
(* twentieths (step 0.05), contrast in tenths (step 0.1), brightness in    *)
(* units.                                                                  *)
(***************************************************************************)
EXTENDS Integers, Sequences, FiniteSets

VARIABLES
    img,        \* the decoded image handed to processImage, with the sampled
                \* pixel of the cell under observation: [width, height, r, g, b]
    settings,   \* App's settings state (AsciiSettings)
    offCanvas,  \* the off-screen canvas of the last processImage call
    canvas,     \* what the visible canvas shows
    prev,       \* history: resolution and safeCols of the previous rendering
    imageSrc,   \* App's imageSrc state
    pending,    \* image loads started by the effect whose onload has not run
    uiState,    \* App's uiState
    aiPrompt,   \* App's aiPrompt
    genPc,      \* where the running handleGenerateAi call stands
    genImage,   \* the data URL generateSourceImage resolved with
    alerts,     \* number of alert() calls made
    apiCalls,   \* number of generateContent requests sent
    genSets     \* number of setImageSrc calls made by handleGenerateAi

vars == <<img, settings, offCanvas, canvas, prev, imageSrc, pending,
          uiState, aiPrompt, genPc, genImage, alerts, apiCalls, genSets>>

renderVars == <<img, settings, offCanvas, canvas, prev>>
genVars == <<uiState, aiPrompt, genPc, genImage, alerts, apiCalls, genSets>>
appVars == <<imageSrc, pending, genVars>>

-----------------------------------------------------------------------------
(* Bounds of the model. *)

\* image widths are 1, 2, 3, 750, 1000 and the multiples of DimStep up to MaxDim
MaxDim == 2000
DimStep == 50
\* image heights are 1, 2, 3, 750, 1000 and the first MaxHeights multiples of DimStep
MaxHeights == 3
\* each colour channel of the observed pixel takes NumLevels evenly spread
\* values of 0..255, both ends included
NumLevels == 3
\* at most MaxPending image loads are in flight at a time
MaxPending == 2
\* at most MaxGenerations generation requests are sent
MaxGenerations == 3

-----------------------------------------------------------------------------
(* Exact rational arithmetic standing for the program's number arithmetic. *)

Abs(x) == IF x < 0 THEN -x ELSE x

Max(a, b) == IF a >= b THEN a ELSE b

Min(a, b) == IF a <= b THEN a ELSE b

RECURSIVE GCD(_, _)
GCD(a, b) == IF b = 0 THEN a ELSE GCD(b, a % b)

\* n/d in lowest terms with a positive denominator (d # 0)
Rat(n, d) ==
    LET g == GCD(Abs(n), Abs(d))
        s == IF d < 0 THEN -1 ELSE 1
    IN  <<(s * n) \div g, (s * d) \div g>>

RInt(n) == <<n, 1>>

\* p * q, cancelling across before multiplying
RMul(p, q) ==
    LET a == Rat(p[1], q[2])
        b == Rat(q[1], p[2])
    IN  Rat(a[1] * b[1], a[2] * b[2])

\* p / q for q # 0
RDiv(p, q) == RMul(p, Rat(q[2], q[1]))

RAdd(p, q) == Rat(p[1] * q[2] + q[1] * p[2], p[2] * q[2])

RSub(p, q) == RAdd(p, <<-q[1], q[2]>>)

\* Math.floor
Floor(p) == p[1] \div p[2]

-----------------------------------------------------------------------------
(* Settings (types.ts, App). *)

ResolutionSteps == 2..20        \* slider: 0.1 .. 1.0 step 0.05, in twentieths
ContrastSteps == 5..30          \* slider: 0.5 .. 3.0 step 0.1, in tenths
BrightnessSteps == {5 * i : i \in -20..20}   \* slider: -100 .. 100 step 5
CharSetModes == {"detail", "halftone", "ascii", "binary", "blocks"}

resolution(s) == Rat(s.resolution, 20)
contrast(s) == Rat(s.contrast, 10)

DefaultSettings ==
    [resolution |-> 14, contrast |-> 11, brightness |-> 0,
     invert |-> FALSE, charSetMode |-> "detail"]

-----------------------------------------------------------------------------
(* processImage: geometry. *)

minFont == 5
maxFont == 20

fontSize(s) ==
    Max(minFont, Floor(RSub(RInt(maxFont), RMul(resolution(s), RInt(maxFont - minFont)))))

\* mutant: the 0.6 cell aspect the source comment mentions
fontWidth_06(s) == RMul(RInt(fontSize(s)), Rat(60, 100))

fontWidth(s) == RMul(RInt(fontSize(s)), Rat(55, 100))

fontHeight(s) == RInt(fontSize(s))

ratio(i) == Rat(i.height, i.width)

\* mutant: the cell width multiplied by the resolution instead of divided
cols_times(i, s) == Floor(RDiv(RInt(i.width), RMul(fontWidth(s), resolution(s))))

cols(i, s) == Floor(RDiv(RInt(i.width), RDiv(fontWidth(s), resolution(s))))

safeCols(i, s) == Min(Max(cols(i, s), 40), 600)

rows(i, s) ==
    Floor(RMul(RMul(RInt(safeCols(i, s)), ratio(i)), RDiv(fontWidth(s), fontHeight(s))))

-----------------------------------------------------------------------------
(* processImage: character ramps, as UTF-16 code units (32 is the space). *)

CHAR_SETS(mode) ==
    CASE mode = "halftone" ->
           <<32, 46, 183, 58, 43, 42, 63, 37, 83, 35, 64>>
      [] mode = "detail" ->
           <<32, 96, 46, 45>> \o
           <<39, 58, 95, 44, 94, 61, 59, 62, 60, 43, 33, 114, 99,
             42, 47, 122, 63, 115, 76, 84, 118, 41, 74, 55, 40, 124, 70, 105, 123,
             67, 125, 102, 73, 51, 49, 116, 108, 117, 91, 110, 101, 111, 90, 53,
             89, 120, 106, 121, 97, 93, 50, 69, 83, 119, 113, 107, 80, 54, 104,
             57, 100, 52, 86, 112, 79, 71, 98, 85, 65, 75, 88, 72, 109, 56, 82,
             68, 35, 36, 66, 103, 48, 77, 78, 87, 81, 37, 38, 64>>
      [] mode = "ascii" ->
           <<32, 46, 96, 94, 34, 44, 58, 59, 73, 108, 33, 105, 126, 43, 95, 45,
             63, 93, 91, 125, 123, 49, 41, 40, 124, 92, 47, 116, 102, 106, 114,
             120, 110, 117, 118, 99, 122, 88, 89, 85, 74, 67, 76, 81, 48, 79, 90,
             109, 119, 113, 112, 100, 98, 107, 104, 97, 111, 42, 35, 77, 87, 38,
             56, 37, 66, 64, 36>>
      [] mode = "binary" -> <<32, 48, 49>>
      [] mode = "blocks" -> <<32, 9617, 9618, 9619, 9608>>

\* mutant: the two glyphs of the binary ramp exchanged
chars_swapped(s) ==
    IF s.charSetMode = "binary" THEN <<32, 49, 48>> ELSE CHAR_SETS(s.charSetMode)

chars(s) == CHAR_SETS(s.charSetMode)

charsLen(s) == Len(chars(s))

-----------------------------------------------------------------------------
(* processImage: tone of one cell. *)

\* 259 * (contrast * 255 + 255)
contrastNumerator(s) ==
    RMul(RInt(259), RAdd(RMul(contrast(s), RInt(255)), RInt(255)))

\* 255 * (259 - contrast * 255)
contrastDenominator(s) ==
    RMul(RInt(255), RSub(RInt(259), RMul(contrast(s), RInt(255))))

contrastFactor(s) == RDiv(contrastNumerator(s), contrastDenominator(s))

\* Luma coefficients
grayLuma(i) == Rat(299 * i.r + 587 * i.g + 114 * i.b, 1000)

\* Brightness
grayBrightness(i, s) == RAdd(grayLuma(i), RInt(s.brightness))

CeilDiv(a, b) == (a + b - 1) \div b

\* |f * x| >= 128, decided without forming the product (the model's integers
\* are 32 bits wide): |x| >= 128 / |f|
Saturates(f, x) ==
    /\ f[1] # 0
    /\ Abs(x[1]) >= CeilDiv(128 * f[2] * x[2], Abs(f[1]))

Clamp(p) ==
    IF p[1] < 0 THEN RInt(0)
    ELSE IF p[1] > 255 * p[2] THEN RInt(255)
    ELSE p

\* Contrast, then Clamp: max(0, min(255, f * (g - 128) + 128)).  Once
\* |f * (g - 128)| >= 128 the clamp decides the value by the sign alone.
grayClamped(i, s) ==
    LET f == contrastFactor(s)
        x == RSub(grayBrightness(i, s), RInt(128))
    IN  IF Saturates(f, x)
        THEN IF (f[1] > 0) = (x[1] > 0) THEN RInt(255) ELSE RInt(0)
        ELSE Clamp(RAdd(RMul(f, x), RInt(128)))

gray(i, s) ==
    IF s.invert THEN RSub(RInt(255), grayClamped(i, s)) ELSE grayClamped(i, s)

\* floor(p * m) for an integer m >= 0 and p >= 0
FloorTimes(p, m) == (p[1] \div p[2]) * m + ((p[1] % p[2]) * m) \div p[2]

\* mutant: the ramp length used without the - 1
charIndex_len(i, s) == FloorTimes(gray(i, s), charsLen(s)) \div 255

\* Math.floor((gray / 255) * (charsLen - 1)); for y >= 0,
\* floor(y / 255) = floor(floor(y) / 255)
charIndex(i, s) == FloorTimes(gray(i, s), charsLen(s) - 1) \div 255

\* chars[charIndex]: JavaScript strings are indexed from 0
char(s, index) == chars(s)[index + 1]

\* `char && char !== ' '`: whether fillText is called for the cell; an index
\* outside the string yields undefined, which is not drawn
painted(s, index) ==
    /\ index \in 0..(charsLen(s) - 1)
    /\ char(s, index) # 32

-----------------------------------------------------------------------------
(* processImage as a whole. *)

None == [none |-> TRUE]

\* offCanvas.width, offCanvas.height
OffCanvasOf(i, s) == [width |-> safeCols(i, s), height |-> rows(i, s)]

\* What the visible canvas holds after a completed call: its size, the font
\* and the cell drawn for the observed pixel (char 32: nothing drawn).
Rendering(i, s, off) ==
    LET index == charIndex(i, s)
        drawn == painted(s, index)
    IN  [width |-> RMul(RInt(off.width), fontWidth(s)),
         height |-> RMul(RInt(off.height), fontHeight(s)),
         fontSize |-> fontSize(s),
         charIndex |-> index,
         char |-> IF drawn THEN char(s, index) ELSE 32,
         painted |-> drawn]

\* getImageData(0, 0, safeCols, rows) throws IndexSizeError when rows = 0 and
\* the call ends there, before the visible canvas is touched.
CanvasAfter(old, i, s, off) == IF off.height = 0 THEN old ELSE Rendering(i, s, off)

-----------------------------------------------------------------------------
(* Inputs. *)

Widths == {1, 2, 3, 750, 1000} \cup {w \in 1..MaxDim : w % DimStep = 0}

Heights == {1, 2, 3, 750, 1000} \cup {DimStep * k : k \in 1..MaxHeights}

Levels == {(255 * k) \div (NumLevels - 1) : k \in 0..(NumLevels - 1)}

AppIdle ==
    /\ imageSrc = "null"
    /\ pending = {}
    /\ uiState = "IDLE"
    /\ aiPrompt = ""
    /\ genPc = "idle"
    /\ genImage = "null"
    /\ alerts = 0
    /\ apiCalls = 0
    /\ genSets = 0

-----------------------------------------------------------------------------
(* processImage applied to one image under one settings record. *)

ProcessImage ==
    /\ offCanvas = None
    /\ offCanvas' = OffCanvasOf(img, settings)
    /\ canvas' = CanvasAfter(canvas, img, settings, offCanvas')
    /\ UNCHANGED <<img, settings, prev>>
    /\ UNCHANGED appVars

\* The Detail slider: setSettings({...settings, resolution}); the next
\* processImage call renders the same image again.
SetResolution(k) ==
    /\ offCanvas # None
    /\ k # settings.resolution
    /\ settings' = [settings EXCEPT !.resolution = k]
    /\ prev' = [resolution |-> settings.resolution, safeCols |-> offCanvas.width]
    /\ offCanvas' = None
    /\ UNCHANGED <<img, canvas>>
    /\ UNCHANGED appVars

\* Geometry: every image size and every position of the Detail slider, the
\* other settings as App creates them.
InitGeom ==
    /\ img \in [width : Widths, height : Heights, r : {0}, g : {0}, b : {0}]
    /\ settings \in {[DefaultSettings EXCEPT !.resolution = k] : k \in ResolutionSteps}
    /\ offCanvas = None
    /\ canvas = None
    /\ prev = None
    /\ AppIdle

NextGeom ==
    \/ ProcessImage
    \/ \E k \in ResolutionSteps : SetResolution(k)

SpecGeom == InitGeom /\ [][NextGeom]_vars

\* Tone: every position of the Contrast and Brightness sliders, of the Invert
\* switch and of the Style buttons, on a 100 x 100 image.
InitTone ==
    /\ img \in [width : {100}, height : {100}, r : Levels, g : Levels, b : Levels]
    /\ settings \in [resolution : {DefaultSettings.resolution},
                     contrast : ContrastSteps,
                     brightness : BrightnessSteps,
                     invert : BOOLEAN,
                     charSetMode : CharSetModes]
    /\ offCanvas = None
    /\ canvas = None
    /\ prev = None
    /\ AppIdle

NextTone == ProcessImage

SpecTone == InitTone /\ [][NextTone]_vars

-----------------------------------------------------------------------------
(* App and the AsciiCanvas effect. *)

Files == {"file1", "file2"}

GeneratedImages == {"gen1", "gen2"}

Prompts == {"", " ", "cat"}

\* String.prototype.trim on the prompts of the model
Trim(p) == IF p = " " THEN "" ELSE p

\* The bitmap each source decodes to (an input of the model), with the
\* sampled pixel of the observed cell.
SourceImage(src) ==
    CASE src = "file1" -> [width |-> 100, height |-> 100, r |-> 0, g |-> 0, b |-> 0]
      [] src = "file2" -> [width |-> 1000, height |-> 750, r |-> 255, g |-> 255, b |-> 255]
      [] src = "gen1" -> [width |-> 1000, height |-> 1000, r |-> 127, g |-> 127, b |-> 127]
      [] src = "gen2" -> [width |-> 1000, height |-> 1000, r |-> 255, g |-> 0, b |-> 0]

\* useEffect(..., [imageSrc, settings]): with an image source set, create an
\* Image, set its src and leave onload to call processImage with the settings
\* of this render.  Nothing cancels a load started earlier.  Two loads of the
\* same source under equal settings draw the same picture and are kept once.
EffectLoads(src, s) ==
    IF src = "null" THEN pending ELSE pending \cup {[src |-> src, settings |-> s]}

\* The bound on the loads in flight, kept by the actions of the user; a
\* running generation has the place of its image reserved, so that its
\* handler is never held up by the bound.
Reserved == IF genPc = "idle" THEN 0 ELSE 1

CanStartLoad(src, s) == Cardinality(EffectLoads(src, s)) + Reserved <= MaxPending

\* img.onload: processImage(img, canvas, ctx, settings)
ImageOnload(l) ==
    /\ l \in pending
    /\ pending' = pending \ {l}
    /\ img' = SourceImage(l.src)
    /\ offCanvas' = OffCanvasOf(img', l.settings)
    /\ canvas' = CanvasAfter(canvas, img', l.settings, offCanvas')
    /\ UNCHANGED <<settings, prev, imageSrc, genVars>>

\* handleFileUpload, at reader.onload: setImageSrc(result); setting the value
\* it already has is no state change and runs no effect
HandleFileUpload(f) ==
    /\ CanStartLoad(f, settings)
    /\ imageSrc' = f
    /\ pending' = IF f = imageSrc THEN pending ELSE EffectLoads(f, settings)
    /\ UNCHANGED <<img, settings, offCanvas, canvas, prev, genVars>>

\* the Invert switch: setSettings({...settings, invert: !settings.invert})
ToggleInvert ==
    /\ settings' = [settings EXCEPT !.invert = ~settings.invert]
    /\ CanStartLoad(imageSrc, settings')
    /\ pending' = EffectLoads(imageSrc, settings')
    /\ UNCHANGED <<img, offCanvas, canvas, prev, imageSrc, genVars>>

\* a Style button: setSettings({...settings, charSetMode: mode})
SetCharSetMode(mode) ==
    /\ settings' = [settings EXCEPT !.charSetMode = mode]
    /\ CanStartLoad(imageSrc, settings')
    /\ pending' = EffectLoads(imageSrc, settings')
    /\ UNCHANGED <<img, offCanvas, canvas, prev, imageSrc, genVars>>

\* the prompt input: setAiPrompt(e.target.value)
SetAiPrompt(p) ==
    /\ p # aiPrompt
    /\ aiPrompt' = p
    /\ UNCHANGED <<renderVars, imageSrc, pending>>
    /\ UNCHANGED <<uiState, genPc, genImage, alerts, apiCalls, genSets>>

\* The Generate button is disabled while generating and while the prompt is
\* empty.  handleGenerateAi returns at once on a blank prompt; otherwise it
\* sets GENERATING_AI and awaits generateSourceImage, which sends one request.
HandleGenerateAi ==
    /\ uiState # "GENERATING_AI"
    /\ aiPrompt # ""
    /\ apiCalls < MaxGenerations
    /\ Cardinality(pending) < MaxPending
    /\ IF Trim(aiPrompt) = ""
       THEN UNCHANGED <<uiState, genPc, apiCalls>>
       ELSE /\ uiState' = "GENERATING_AI"
            /\ genPc' = "awaiting"
            /\ apiCalls' = apiCalls + 1
    /\ UNCHANGED <<renderVars, imageSrc, pending, aiPrompt, genImage, alerts, genSets>>

\* generateSourceImage after its await: a response with an inlineData part
\* resolves with the data URL; a response without one throws inside the try,
\* and that error, like a rejected request, is logged and rethrown.
GenerateContentSettles(outcome, url) ==
    /\ genPc = "awaiting"
    /\ IF outcome = "inlineData"
       THEN genPc' = "resolved" /\ genImage' = url
       ELSE genPc' = "rejected" /\ genImage' = "null"
    /\ UNCHANGED <<renderVars, imageSrc, pending, uiState, aiPrompt, alerts, apiCalls, genSets>>

\* mutant: setUiState(IDLE) at the end of the try block instead of in finally
HandleGenerateAiResumes_noFinally ==
    /\ genPc \in {"resolved", "rejected"}
    /\ genPc' = "idle"
    /\ genImage' = "null"
    /\ IF genPc = "resolved"
       THEN /\ imageSrc' = genImage
            /\ pending' = IF genImage = imageSrc THEN pending
                          ELSE EffectLoads(genImage, settings)
            /\ genSets' = genSets + 1
            /\ uiState' = "IDLE"
            /\ UNCHANGED alerts
       ELSE /\ alerts' = alerts + 1
            /\ UNCHANGED <<imageSrc, pending, genSets, uiState>>
    /\ UNCHANGED <<renderVars, aiPrompt, apiCalls>>

\* handleGenerateAi after its await: setImageSrc on success, one alert on
\* failure, and setUiState(IDLE) in finally either way
HandleGenerateAiResumes ==
    /\ genPc \in {"resolved", "rejected"}
    /\ genPc' = "idle"
    /\ genImage' = "null"
    /\ uiState' = "IDLE"
    /\ IF genPc = "resolved"
       THEN /\ imageSrc' = genImage
            /\ pending' = IF genImage = imageSrc THEN pending
                          ELSE EffectLoads(genImage, settings)
            /\ genSets' = genSets + 1
            /\ UNCHANGED alerts
       ELSE /\ alerts' = alerts + 1
            /\ UNCHANGED <<imageSrc, pending, genSets>>
    /\ UNCHANGED <<renderVars, aiPrompt, apiCalls>>

InitApp ==
    /\ img = None
    /\ settings = DefaultSettings
    /\ offCanvas = None
    /\ canvas = None
    /\ prev = None
    /\ AppIdle

\* The canvas: uploads, the Invert switch, the Style buttons, image loads.
NextCanvas ==
    \/ \E f \in Files : HandleFileUpload(f)
    \/ ToggleInvert
    \/ \E mode \in CharSetModes : SetCharSetMode(mode)
    \/ \E l \in pending : ImageOnload(l)

SpecCanvas == InitApp /\ [][NextCanvas]_vars

\* Generation: the prompt, the Generate button, the request, uploads, loads.
NextGen ==
    \/ \E p \in Prompts : SetAiPrompt(p)
    \/ HandleGenerateAi
    \/ \E outcome \in {"inlineData", "noInlineData", "requestFailed"} :
          \E url \in GeneratedImages : GenerateContentSettles(outcome, url)
    \/ HandleGenerateAiResumes
    \/ \E f \in Files : HandleFileUpload(f)
    \/ \E l \in pending : ImageOnload(l)

\* Once the promise has settled the continuation of the handler is a queued
\* microtask: the event loop runs it.
FairSpecGen == InitApp /\ [][NextGen]_vars /\ WF_vars(HandleGenerateAiResumes)

-----------------------------------------------------------------------------
(* Claims about the geometry (SpecGeom). *)

\* C1: every geometry processImage computes has safeCols in 40..600 and
\* rows >= 1.
C1_GeometryBounds ==
    offCanvas # None =>
        /\ offCanvas.width \in 40..600
        /\ offCanvas.height >= 1

Is1000x750 == img.width = 1000 /\ img.height = 750

\* C4 as stated: at resolution 1.0 a 1000 x 750 image resolves to 600 columns
\* (the upper clamp), and rows = floor(safeCols * (750 / 1000) * 0.55).
C4_ScenarioD_Original ==
    (Is1000x750 /\ settings.resolution = 20 /\ offCanvas # None) =>
        /\ offCanvas.width = 600
        /\ offCanvas.height = (offCanvas.width * 750 * 55) \div (1000 * 100)

\* C4 amended: at resolution 1.0 a 1000 x 750 image resolves to 363 columns,
\* floor(1000 / 2.75), inside the clamp, and to
\* rows = floor(363 * (750 / 1000) * 0.55) = 149.
C4_ScenarioD ==
    (Is1000x750 /\ settings.resolution = 20 /\ offCanvas # None) =>
        /\ offCanvas.width = 363
        /\ offCanvas.height = (offCanvas.width * 750 * 55) \div (1000 * 100)
        /\ offCanvas.height = 149

C4_Witness ==
    /\ Is1000x750
    /\ settings.resolution = 20
    /\ offCanvas # None
    /\ offCanvas.width = 363
    /\ canvas # None

\* C5: for a fixed image, rendering at a resolution r2 >= r1 never yields
\* fewer columns than the rendering at r1 did.
C5_Monotone ==
    (prev # None /\ offCanvas # None /\ prev.resolution <= settings.resolution) =>
        prev.safeCols <= offCanvas.width

\* a strict increase between two unclamped column counts
C5_Witness ==
    /\ prev # None
    /\ offCanvas # None
    /\ prev.resolution < settings.resolution
    /\ 40 < prev.safeCols
    /\ prev.safeCols < offCanvas.width
    /\ offCanvas.width < 600

-----------------------------------------------------------------------------
(* Claims about the tone mapping (SpecTone). *)

IsBlack == img.r = 0 /\ img.g = 0 /\ img.b = 0

IsWhite == img.r = 255 /\ img.g = 255 /\ img.b = 255

ToneDefaults(inv) ==
    /\ settings.contrast = DefaultSettings.contrast
    /\ settings.brightness = DefaultSettings.brightness
    /\ settings.charSetMode = DefaultSettings.charSetMode
    /\ settings.invert = inv

\* C2: a black pixel under the default settings selects index 0 of the
\* detail ramp and nothing is painted.
C2_ScenarioA ==
    (IsBlack /\ ToneDefaults(FALSE) /\ canvas # None) =>
        /\ canvas.charIndex = 0
        /\ ~canvas.painted

\* C3: a white pixel with invert on and the other settings at their defaults
\* selects index 0.
C3_ScenarioC ==
    (IsWhite /\ ToneDefaults(TRUE) /\ canvas # None) => canvas.charIndex = 0

\* The character ramps as section 6 of the specification spells them.
Section6Ramp(mode) ==
    CASE mode = "halftone" ->
           <<32, 46, 183, 58, 43, 42, 63, 37, 83, 35, 64>>
      [] mode = "detail" ->
           <<32>> \o
           <<96, 46, 45, 39, 58, 95, 44, 94, 61, 59, 62, 60, 43, 33, 114, 99,
             42, 47, 122, 63, 115, 76, 84, 118, 41, 74, 55, 40, 124, 70, 105, 123,
             67, 125, 102, 73, 51, 49, 116, 108, 117, 91, 110, 101, 111, 90, 53,
             89, 120, 106, 121, 97, 93, 50, 69, 83, 119, 113, 107, 80, 54, 104,
             57, 100, 52, 86, 112, 79, 71, 98, 85, 65, 75, 88, 72, 109, 56, 82,
             68, 35, 36, 66, 103, 48, 77, 78, 87, 81, 37, 38, 64, 36>>
      [] mode = "ascii" ->
           <<32, 46, 96, 94, 34, 44, 58, 59, 73, 108, 33, 105, 126, 43, 95, 45,
             63, 93, 91, 125, 123, 49, 41, 40, 124, 92, 47, 116, 102, 106, 114,
             120, 110, 117, 118, 99, 122, 88, 89, 85, 74, 67, 76, 81, 48, 79, 90,
             109, 119, 113, 112, 100, 98, 107, 104, 97, 111, 42, 35, 77, 87, 38,
             56, 37, 66, 64, 36>>
      [] mode = "binary" -> <<32, 48, 49>>
      [] mode = "blocks" -> <<32, 9617, 9618, 9619, 9608>>

\* C6 as stated: the ramp the renderer indexes is the section 6 literal of
\* the selected mode.
C6_RampFidelity_Original ==
    canvas # None => chars(settings) = Section6Ramp(settings.charSetMode)

\* C6 amended: for halftone, ascii, binary and blocks the ramp is the section
\* 6 literal; for detail it is the section 6 literal without its final "$":
\* 92 characters ending in "@".
C6_RampFidelity ==
    canvas # None =>
        LET lit == Section6Ramp(settings.charSetMode)
        IN  IF settings.charSetMode = "detail"
            THEN /\ chars(settings) = SubSeq(lit, 1, Len(lit) - 1)
                 /\ lit[Len(lit)] = 36
                 /\ charsLen(settings) = 92
                 /\ chars(settings)[92] = 64
            ELSE chars(settings) = lit

\* the brightest cell of the detail ramp is drawn as "@", index 91
C6_Witness ==
    /\ settings.charSetMode = "detail"
    /\ canvas # None
    /\ canvas.charIndex = 91
    /\ canvas.char = 64

\* C7: for every contrast the slider can give, the denominator of
\* contrastFactor is strictly positive, and so is contrastFactor.
C7_DenominatorPositive ==
    canvas # None =>
        /\ contrastDenominator(settings)[1] > 0
        /\ contrastFactor(settings)[1] > 0

SpaceOnlyFirst(ramp) == \A k \in 1..Len(ramp) : (ramp[k] = 32) <=> (k = 1)

\* C10: the index of every rendered cell lies in 0..charsLen-1; the cell is
\* painted exactly when its glyph is not the space; the space stands at
\* index 0 of the ramp and nowhere else, so the cell is empty iff the index
\* is 0.
C10_IndexInRange ==
    canvas # None =>
        /\ canvas.charIndex \in 0..(charsLen(settings) - 1)
        /\ canvas.painted <=> (chars(settings)[canvas.charIndex + 1] # 32)
        /\ SpaceOnlyFirst(chars(settings))
        /\ ~canvas.painted <=> (canvas.charIndex = 0)

\* a painted cell strictly inside the ramp
C10_Witness ==
    /\ canvas # None
    /\ canvas.charIndex > 0
    /\ canvas.charIndex < charsLen(settings) - 1
    /\ canvas.painted
    /\ ~IsBlack
    /\ ~IsWhite

-----------------------------------------------------------------------------
(* Claims about App and the effect (FairSpecGen, SpecCanvas). *)

\* uiState is GENERATING_AI exactly while a call of handleGenerateAi is under
\* way, and every request sent has ended in one alert or one setImageSrc, or
\* is the one under way: no request is sent twice.
C8_State ==
    /\ (genPc # "idle") <=> (uiState = "GENERATING_AI")
    /\ apiCalls = alerts + genSets + (IF genPc = "idle" THEN 0 ELSE 1)

C8_Step ==
    \* a request is sent only for a non-blank prompt, with GENERATING_AI set
    /\ (apiCalls' # apiCalls) =>
          /\ Trim(aiPrompt) # ""
          /\ apiCalls' = apiCalls + 1
          /\ uiState' = "GENERATING_AI"
    \* after a rejection: one alert, imageSrc as it was, no new request, IDLE
    /\ (genPc = "rejected" /\ genPc' # genPc) =>
          /\ alerts' = alerts + 1
          /\ imageSrc' = imageSrc
          /\ genSets' = genSets
          /\ apiCalls' = apiCalls
          /\ uiState' = "IDLE"
    \* after a success: the image replaces imageSrc, no alert, IDLE
    /\ (genPc = "resolved" /\ genPc' # genPc) =>
          /\ imageSrc' = genImage
          /\ genSets' = genSets + 1
          /\ alerts' = alerts
          /\ uiState' = "IDLE"
    \* an alert is shown only after a rejection, and a generated image
    \* becomes imageSrc only after a success
    /\ (alerts' # alerts) => genPc = "rejected"
    /\ (imageSrc' # imageSrc /\ imageSrc' \in GeneratedImages) => genPc = "resolved"

\* C8: a call of handleGenerateAi with a non-blank prompt sets GENERATING_AI;
\* once generateSourceImage has resolved or rejected, uiState returns to
\* IDLE; a rejection (a response without inlineData included) shows exactly
\* one alert, leaves imageSrc as it was and sends no second request; imageSrc
\* is replaced by the handler only on success.
C8_GenerationFailureHandling ==
    /\ []C8_State
    /\ [][C8_Step]_vars
    /\ (genPc \in {"resolved", "rejected"}) ~> (uiState = "IDLE")

\* a failed and a successful generation both behind
C8_Witness ==
    /\ alerts >= 1
    /\ genSets >= 1
    /\ genPc = "idle"
    /\ uiState = "IDLE"
    /\ imageSrc \in GeneratedImages

\* C9: once no image load is in flight, the canvas shows the rendering of
\* the current imageSrc under the current settings.
C9_LatestInput ==
    (pending = {} /\ imageSrc # "null") =>
        canvas = Rendering(SourceImage(imageSrc), settings,
                           OffCanvasOf(SourceImage(imageSrc), settings))

=============================================================================
